---- MODULE Spec2Model ----
(***************************************************************************)
(* Model of the Ozon seller-API harvesting scripts:                        *)
(*   stock_ozon.py, export_products_ozon.py, ozon_product_info.py,         *)
(*   fbo_clusters.py.                                                      *)
(* The scripts are sequential programs.  Each part below models one group  *)
(* of functions as a state machine of its own, with its own specification: *)
(*   SpecPost    post_ozon (retry / backoff client)                        *)
(*   SpecPages   get_all_product_ids fed a finite script of pages          *)
(*   SpecServer  get_all_product_ids against an unconstrained server       *)
(*   SpecStocks  export_stocks_compact                                     *)
(*   SpecTables  build_regions, collect_warehouse_refs, build_warehouses   *)
(*   SpecExtract find_best_list_of_dicts, extract_clusters                 *)
(*   SpecBody    post_ozon followed by the function that reads its data    *)
(*   SpecChunks  chunked                                                   *)
(*   SpecMain    get_fbo_warehouse_map and main of fbo_clusters.py         *)
(*   SpecMeta    get_sku_meta_by_product_ids                               *)
(* The variables of the parts a specification does not run stay idle.      *)
(***************************************************************************)
EXTENDS Integers, Sequences, FiniteSets, TLC

VARIABLES
    \* ---- post_ozon ----
    poPc,        \* "idle" | "loop" | "done"
    path,        \* endpoint path of the call in progress
    retries,     \* the retries argument of the call
    attempt,     \* iterations of `for _ in range(retries)` completed
    backoff,     \* the local backoff
    sleeps,      \* durations passed to time.sleep during this call, in order
    calls,       \* requests.post calls issued during this call
    lastResp,    \* the last response received in this call
    nTransient,  \* history: responses of this call that took the retry branch
    outcome,     \* what the call returned or raised
    \* ---- get_all_product_ids ----
    pgPc,        \* "idle" | "run" (in the while loop) | "done" | "raised"
    variant,     \* which script's copy of the function runs
    script,      \* scripted server: the pages it serves, in order
    served,      \* scripted server: pages served so far
    product_ids, \* the local product_ids
    last_id,     \* the local last_id (the cursor of the next request)
    \* ---- export_stocks_compact ----
    stPc,        \* "idle" | "start" | "run" (file open) | "done" | "crashed"
    sku_meta,    \* the SKU metadata map: SKU -> name / offer_id
    chunk_size,  \* the chunk_size argument
    skus,        \* sorted(sku_meta.keys())
    batchNo,     \* batches of chunked(skus, chunk_size) processed
    f,           \* what has been written to the output file, write by write
    first_sku_obj, \* the local first_sku_obj
    replies,     \* history: the data post_ozon returned for each batch
    \* ---- build_regions, build_warehouses ----
    tbPc,        \* "idle" | "regions" | "warehouses" | "done"
    clusters,    \* the cluster records, as extract_clusters returned them
    warehouse_map, \* the directory: warehouse id -> name
    consumed,    \* clusters consumed by the loop in progress
    regions,     \* build_regions: the local regions
    map_cluster_to_region_id, \* build_regions: cluster id text -> local id
    next_id,     \* build_regions: the local next_id
    rows,        \* build_warehouses: the local rows
    seen,        \* build_warehouses: the local seen
    \* ---- extract_clusters / find_best_list_of_dicts ----
    exPc,        \* "idle" | "start" | "returned" | "raised"
    data,        \* the parsed response of /v1/cluster/list
    best,        \* find_best_list_of_dicts: the list returned
    best_path,   \* find_best_list_of_dicts: the path returned
    \* ---- the consumer of the data post_ozon returned ----
    dnPc,        \* "idle" | "done" (the step returned) | "raised"
    dnStep,      \* the function that consumed the data
    dnItems,     \* the record list (identifier list) the step came to
    \* ---- chunked ----
    chPc,        \* "idle" | "call" | "done"
    chLst,       \* the lst argument
    chN,         \* the n argument
    chunks,      \* the list returned
    \* ---- main of fbo_clusters.py ----
    dirAnswer,   \* history: what post_ozon did for /v1/warehouse/fbo/list
    dumped       \* the files dump_json has written: name -> object

poVars == <<poPc, path, retries, attempt, backoff, sleeps, calls, lastResp,
            nTransient, outcome>>

pgVars == <<pgPc, variant, script, served, product_ids, last_id>>

stVars == <<stPc, sku_meta, chunk_size, skus, batchNo, f, first_sku_obj,
            replies>>

tbVars == <<tbPc, clusters, warehouse_map, consumed, regions,
            map_cluster_to_region_id, next_id, rows, seen>>

exVars == <<exPc, data, best, best_path>>

dnVars == <<dnPc, dnStep, dnItems>>

chVars == <<chPc, chLst, chN, chunks>>

mnVars == <<dirAnswer, dumped>>

vars == <<poVars, pgVars, stVars, tbVars, exVars, dnVars, chVars, mnVars>>

(***************************************************************************)
(* Parsed JSON values, as Python holds them after resp.json(): a tagged    *)
(* record.  A dict keeps its keys in insertion order (ks) beside the       *)
(* values (xs); a list keeps its elements in xs.  "num" is a number with a *)
(* fractional part: n is its integer part (what int() truncates to).       *)
(***************************************************************************)
JNull == [t |-> "null", n |-> 0, s |-> "", ks |-> <<>>, xs |-> <<>>]
JInt(i) == [t |-> "int", n |-> i, s |-> "", ks |-> <<>>, xs |-> <<>>]
JStr(str) == [t |-> "str", n |-> 0, s |-> str, ks |-> <<>>, xs |-> <<>>]
JList(elems) == [t |-> "list", n |-> 0, s |-> "", ks |-> <<>>, xs |-> elems]
JDict(keys, vals) == [t |-> "dict", n |-> 0, s |-> "", ks |-> keys, xs |-> vals]
\* The number i + 0.5.
JNum(i) == [t |-> "num", n |-> i, s |-> "", ks |-> <<>>, xs |-> <<>>]

Min(a, b) == IF a <= b THEN a ELSE b

EmptyDict == JDict(<<>>, <<>>)

EmptyList == JList(<<>>)

\* Python truthiness of a parsed value: bool(v).
Truthy(v) ==
    CASE v.t = "null" -> FALSE
      [] v.t = "int" -> v.n # 0
      [] v.t = "num" -> TRUE
      [] v.t = "str" -> v.s # ""
      [] v.t = "list" -> Len(v.xs) > 0
      [] v.t = "dict" -> Len(v.ks) > 0

HasKey(d, k) == \E i \in 1..Len(d.ks) : d.ks[i] = k

\* d.get(k) on a dict: the value under k, None when the key is absent.
DictGet(d, k) ==
    IF HasKey(d, k)
    THEN d.xs[CHOOSE i \in 1..Len(d.ks) : d.ks[i] = k]
    ELSE JNull

\* `v or default`
OrElse(v, default) == IF Truthy(v) THEN v ELSE default

\* str(v) for the scalars the scripts convert: a string is itself, an
\* integer its decimal digits, None the text "None".
PyStr(v) ==
    CASE v.t = "str" -> v.s
      [] v.t = "int" -> ToString(v.n)
      [] v.t = "null" -> "None"

\* ------------------------------------------------------------------------
\* post_ozon
\* ------------------------------------------------------------------------

\* Bound: the largest retries argument tried (the scripts pass 5 or 6).
MaxRetries == 7

\* Maximum backoff, the 30 of min(backoff * 2, 30).
BackoffCap == 30

Paths == {"/v3/product/list", "/v1/analytics/stocks"}

\* Statuses the server may answer with.
Statuses == {200, 204, 302, 400, 404, 429, 500, 501, 502, 503, 504, 505, 599}

\* Response bodies, as raw text.
Bodies == {"{}", "[]", "null", "<html>oops</html>", ""}

Responses == [status : Statuses, body : Bodies]

\* resp.json(): the bodies that parse, and what they parse to.
JsonParses(body) == body \in {"{}", "[]", "null"}

RespJson(body) ==
    CASE body = "{}" -> JDict(<<>>, <<>>)
      [] body = "[]" -> JList(<<>>)
      [] body = "null" -> JNull

\* try: data = resp.json()  except Exception: data = resp.text
RespData(resp) ==
    IF JsonParses(resp.body) THEN RespJson(resp.body) ELSE JStr(resp.body)

\* resp.ok of requests: the status is no 4xx and no 5xx.
RespOk(status) == ~(400 <= status /\ status < 600)

IsTransient_NoGatewayTimeout(status) == status \in {429, 500, 502, 503}

IsTransient_AnyError(status) == status >= 400

\* resp.status_code in (429, 500, 502, 503, 504)
IsTransient(status) == status \in {429, 500, 502, 503, 504}

NextBackoff_NoCap(b) == b * 2

\* backoff = min(backoff * 2, 30)
NextBackoff(b) == Min(b * 2, BackoffCap)

LoopRuns_OneMore(i, r) == i <= r

\* `for _ in range(retries)`: is there an iteration after i completed ones
LoopRuns(i, r) == i < r

NoOutcome == [kind |-> "none", status |-> 0, path |-> "", attempts |-> 0,
              data |-> JNull]

\* return data
Returned(resp) ==
    [kind |-> "returned", status |-> resp.status, path |-> "", attempts |-> 0,
     data |-> RespData(resp)]

\* raise RuntimeError(f"HTTP {resp.status_code} {path}: {data}")
RequestFailed(resp, p) ==
    [kind |-> "failed", status |-> resp.status, path |-> p, attempts |-> 0,
     data |-> RespData(resp)]

\* raise RuntimeError(f"... {path} после {retries} попыток")
RequestExhausted(p, r) ==
    [kind |-> "exhausted", status |-> 0, path |-> p, attempts |-> r,
     data |-> JNull]

NoResp == [status |-> 0, body |-> ""]

PoIdle ==
    /\ poPc = "idle"
    /\ path = ""
    /\ retries = 0
    /\ attempt = 0
    /\ backoff = 1
    /\ sleeps = <<>>
    /\ calls = 0
    /\ lastResp = NoResp
    /\ nTransient = 0
    /\ outcome = NoOutcome

PgIdle ==
    /\ pgPc = "idle"
    /\ variant = "stock_ozon"
    /\ script = <<>>
    /\ served = 0
    /\ product_ids = <<>>
    /\ last_id = ""

StIdle ==
    /\ stPc = "idle"
    /\ sku_meta = <<>>
    /\ chunk_size = 1
    /\ skus = <<>>
    /\ batchNo = 0
    /\ f = <<>>
    /\ first_sku_obj = TRUE
    /\ replies = <<>>

TbIdle ==
    /\ tbPc = "idle"
    /\ clusters = <<>>
    /\ warehouse_map = <<>>
    /\ consumed = 0
    /\ regions = <<>>
    /\ map_cluster_to_region_id = <<>>
    /\ next_id = 1
    /\ rows = <<>>
    /\ seen = {}

ExIdle ==
    /\ exPc = "idle"
    /\ data = JNull
    /\ best = <<>>
    /\ best_path = <<>>

DnIdle ==
    /\ dnPc = "idle"
    /\ dnStep = ""
    /\ dnItems = <<>>

ChIdle ==
    /\ chPc = "idle"
    /\ chLst = <<>>
    /\ chN = 1
    /\ chunks = <<>>

MnIdle ==
    /\ dirAnswer = NoOutcome
    /\ dumped = <<>>

\* post_ozon(path, payload, retries): entry, up to the loop.
PostCall(p, r) ==
    /\ poPc \in {"idle", "done"}
    /\ poPc' = "loop"
    /\ path' = p
    /\ retries' = r
    /\ attempt' = 0
    /\ backoff' = 1
    /\ sleeps' = <<>>
    /\ calls' = 0
    /\ lastResp' = NoResp
    /\ nTransient' = 0
    /\ outcome' = NoOutcome
    /\ UNCHANGED <<pgVars, stVars, tbVars, exVars>>
    /\ UNCHANGED <<dnVars, chVars, mnVars>>

\* One iteration of the loop: the request, then the retry branch, the raise
\* or the return.
PostAttempt(resp) ==
    /\ poPc = "loop"
    /\ LoopRuns(attempt, retries)
    /\ calls' = calls + 1
    /\ lastResp' = resp
    /\ attempt' = attempt + 1
    /\ IF IsTransient(resp.status)
       THEN /\ sleeps' = Append(sleeps, backoff)
            /\ backoff' = NextBackoff(backoff)
            /\ nTransient' = nTransient + 1
            /\ UNCHANGED <<poPc, outcome>>
       ELSE /\ outcome' = IF RespOk(resp.status)
                          THEN Returned(resp)
                          ELSE RequestFailed(resp, path)
            /\ poPc' = "done"
            /\ UNCHANGED <<sleeps, backoff, nTransient>>
    /\ UNCHANGED <<path, retries>>
    /\ UNCHANGED <<pgVars, stVars, tbVars, exVars>>
    /\ UNCHANGED <<dnVars, chVars, mnVars>>

\* The loop ran out: the raise after it.
PostExhausted ==
    /\ poPc = "loop"
    /\ ~LoopRuns(attempt, retries)
    /\ outcome' = RequestExhausted(path, retries)
    /\ poPc' = "done"
    /\ UNCHANGED <<path, retries, attempt, backoff, sleeps, calls, lastResp,
                   nTransient>>
    /\ UNCHANGED <<pgVars, stVars, tbVars, exVars>>
    /\ UNCHANGED <<dnVars, chVars, mnVars>>

InitPost ==
    /\ PoIdle
    /\ DnIdle
    /\ ChIdle
    /\ MnIdle
    /\ PgIdle
    /\ StIdle
    /\ TbIdle
    /\ ExIdle

NextPost ==
    \/ \E p \in Paths, r \in 0..MaxRetries : PostCall(p, r)
    \/ \E resp \in Responses : PostAttempt(resp)
    \/ PostExhausted

SpecPost == InitPost /\ [][NextPost]_vars

\* ---- claims about post_ozon ---------------------------------------------

\* The statuses the retry branch is taken for.
RetriedStatuses == {429, 500, 502, 503, 504}

\* The rate-limit status and the whole server-side class 500..599.
RateLimitAnd5xx == {429} \cup (500..599)

\* The last response of the call in progress took the retry branch: it was
\* followed by a sleep and raised nothing.
LastWasRetried == Len(sleeps) = calls /\ outcome.kind \notin {"failed", "returned"}

\* The last response of the call in progress ended the call at once.
LastEndedCall ==
    /\ Len(sleeps) = calls - 1
    /\ poPc = "done"
    /\ outcome.kind \in {"failed", "returned"}

C4_BackoffSchedule ==
    /\ \A k \in 1..Len(sleeps) : sleeps[k] = Min(2^(k - 1), 30)
    /\ \A k \in 1..Len(sleeps) : sleeps[k] <= 30
    /\ (poPc = "loop" /\ calls = 0) => backoff = 1

\* C4 witness: a call whose sixth sleep hit the cap.
C4_Witness ==
    /\ Len(sleeps) >= 6
    /\ sleeps[1] = 1
    /\ sleeps[5] = 16
    /\ sleeps[6] = 30

\* C5: a call issues at most `retries` requests; it raises the exhaustion
\* error exactly when it has ended and all `retries` responses took the
\* retry branch, and the error names the path and the attempt count.
C5_Exhaustion ==
    /\ calls <= retries
    /\ outcome.kind = "exhausted" <=> (poPc = "done" /\ nTransient = retries)
    /\ outcome.kind = "exhausted" =>
          /\ calls = retries
          /\ outcome.path = path
          /\ outcome.attempts = retries

\* C5 witness: six transient answers, then the exhaustion error.
C5_Witness ==
    /\ outcome.kind = "exhausted"
    /\ retries = 6
    /\ calls = 6
    /\ outcome.attempts = 6

\* What the raised error carries for a body: the parsed value when the text
\* is JSON, the raw text otherwise.
C6_ParsedOrRaw(body) ==
    CASE body = "{}" -> JDict(<<>>, <<>>)
      [] body = "[]" -> JList(<<>>)
      [] body = "null" -> JNull
      [] OTHER -> JStr(body)

\* C6: a non-success status outside the retried ones is raised at once, with
\* the status and the body (parsed, else raw): no sleep follows it and the
\* call is over, whatever number of attempts remains.
C6_FailsAtOnce ==
    (/\ calls > 0
     /\ lastResp.status >= 400
     /\ lastResp.status \notin RetriedStatuses)
    => /\ poPc = "done"
       /\ outcome.kind = "failed"
       /\ outcome.status = lastResp.status
       /\ outcome.data = C6_ParsedOrRaw(lastResp.body)
       /\ outcome.path = path
       /\ Len(sleeps) = calls - 1
       /\ nTransient = calls - 1

\* C6 witness: a 404 with an unparseable body raised on the third of six
\* attempts.
C6_Witness ==
    /\ outcome.kind = "failed"
    /\ lastResp.status = 404
    /\ lastResp.body = "<html>oops</html>"
    /\ outcome.data = JStr("<html>oops</html>")
    /\ retries = 6
    /\ calls = 3

\* ------------------------------------------------------------------------
\* get_all_product_ids
\* ------------------------------------------------------------------------

\* Bound: the longest page script of the scripted server.
MaxPages == 3

\* Bound: the most identifiers collected against the unconstrained server.
MaxIds == 3

\* The copies of the function: stock_ozon.py, and export_products_ozon.py
\* (ozon_product_info.py holds the same text as the latter).
Variants == {"stock_ozon", "export_products_ozon"}

\* Items of a page: records with a product_id (integer or text) or without.
Item(pid) == JDict(<<"product_id", "offer_id">>, <<pid, JStr("art")>>)

ItemNoPid == JDict(<<"offer_id">>, <<JStr("art")>>)

ItemLists ==
    { <<>>,
      <<Item(JInt(1))>>,
      <<Item(JInt(2)), Item(JInt(1))>>,
      <<ItemNoPid>>,
      <<Item(JStr("x7")), ItemNoPid, Item(JInt(2))>> }

\* The cursor a page reports: absent, empty or a text.
Cursors == {JNull, JStr(""), JStr("a"), JStr("b")}

\* {"result": {"items": [...], "last_id": ...}}; a None cursor is a page
\* without the last_id key.
Page(items, cursor) ==
    JDict(<<"result">>,
          << IF cursor = JNull
             THEN JDict(<<"items">>, <<JList(items)>>)
             ELSE JDict(<<"items", "last_id">>, <<JList(items), cursor>>) >>)

PageItems(page) == DictGet(DictGet(page, "result"), "items").xs

PageCursor(page) == DictGet(DictGet(page, "result"), "last_id")

AllPages == { Page(items, c) : items \in ItemLists, c \in Cursors }

\* A page after which the server expects one more request.
IsInnerPage(page) ==
    PageItems(page) # <<>> /\ PageCursor(page).t = "str" /\ PageCursor(page).s # ""

InnerPages == { pg \in AllPages : IsInnerPage(pg) }

FinalPages == AllPages \ InnerPages

\* Page scripts: inner pages, then one final page.
Scripts ==
    UNION { { sc \in [1..n -> AllPages] :
                /\ \A i \in 1..(n - 1) : sc[i] \in InnerPages
                /\ sc[n] \in FinalPages }
            : n \in 1..MaxPages }

\* Bodies that are not the expected object: unparseable text, empty text,
\* null, a bare list, an object whose result is a list.
OddAnswers ==
    { JStr("<html>oops</html>"), JStr(""), JNull, JList(<<ItemNoPid>>),
      JDict(<<"result">>, <<JList(<<ItemNoPid>>)>>),
      JDict(<<"result">>, <<JDict(<<"items">>, <<JList(<<JInt(5)>>)>>)>>) }

AppendIds_Front(ids, items) ==
    LET F[i \in 0..Len(items)] ==
            IF i = 0 THEN ids
            ELSE LET pid == DictGet(items[i], "product_id")
                 IN  IF pid.t = "null" THEN F[i - 1]
                     ELSE <<PyStr(pid)>> \o F[i - 1]
    IN  F[Len(items)]

\* for it in items: pid = it.get("product_id");
\*     if pid is not None: product_ids.append(str(pid))
AppendIds(ids, items) ==
    LET F[i \in 0..Len(items)] ==
            IF i = 0 THEN ids
            ELSE LET pid == DictGet(items[i], "product_id")
                 IN  IF pid.t = "null" THEN F[i - 1]
                     ELSE Append(F[i - 1], PyStr(pid))
    IN  F[Len(items)]

PgResult(pc, ids, last) == [pc |-> pc, ids |-> ids, last |-> last]

\* The loop body from `result = ...` on, for a dict (or, in stock_ozon.py,
\* falsy) data.  A value of the wrong type raises where the code calls .get
\* on it or iterates it.
PageBody(answer, ids, last) ==
    LET d == OrElse(answer, EmptyDict)
        result == OrElse(DictGet(d, "result"), EmptyDict)
        items == OrElse(DictGet(result, "items"), EmptyList)
        cursor == DictGet(result, "last_id")
        newLast == IF Truthy(cursor) THEN PyStr(cursor) ELSE ""
    IN  IF d.t # "dict" THEN PgResult("raised", ids, last)
        ELSE IF result.t # "dict" THEN PgResult("raised", ids, last)
        ELSE IF ~Truthy(items) THEN PgResult("done", ids, last)
        ELSE IF items.t # "list" \/ \E i \in 1..Len(items.xs) : items.xs[i].t # "dict"
             THEN PgResult("raised", ids, last)
        ELSE PgResult(IF newLast = "" THEN "done" ELSE "run",
                      AppendIds(ids, items.xs), newLast)

\* One iteration of `while True`, given the data post_ozon returned.
\* export_products_ozon.py first leaves the loop on a data that is no dict.
PageStep(v, answer, ids, last) ==
    IF v = "export_products_ozon" /\ answer.t # "dict"
    THEN PgResult("done", ids, last)
    ELSE PageBody(answer, ids, last)

\* An iteration against the scripted server, which answers the k-th request
\* with the k-th page of its script.
FetchScripted ==
    /\ pgPc = "run"
    /\ served < Len(script)
    /\ LET r == PageStep(variant, script[served + 1], product_ids, last_id)
       IN  /\ pgPc' = r.pc
           /\ product_ids' = r.ids
           /\ last_id' = r.last
    /\ served' = served + 1
    /\ UNCHANGED <<variant, script>>
    /\ UNCHANGED <<poVars, stVars, tbVars, exVars>>
    /\ UNCHANGED <<dnVars, chVars, mnVars>>

\* An iteration against a server that may answer anything.
FetchAny(answer) ==
    /\ pgPc = "run"
    /\ LET r == PageStep(variant, answer, product_ids, last_id)
       IN  /\ Len(r.ids) <= MaxIds
           /\ pgPc' = r.pc
           /\ product_ids' = r.ids
           /\ last_id' = r.last
    /\ UNCHANGED <<variant, script, served>>
    /\ UNCHANGED <<poVars, stVars, tbVars, exVars>>
    /\ UNCHANGED <<dnVars, chVars, mnVars>>

\* An iteration whose post_ozon call raises: the exception leaves the loop.
FetchRaises ==
    /\ pgPc = "run"
    /\ pgPc' = "raised"
    /\ UNCHANGED <<variant, script, served, product_ids, last_id>>
    /\ UNCHANGED <<poVars, stVars, tbVars, exVars>>
    /\ UNCHANGED <<dnVars, chVars, mnVars>>

InitPages ==
    /\ PoIdle
    /\ DnIdle
    /\ ChIdle
    /\ MnIdle
    /\ ExIdle
    /\ TbIdle
    /\ StIdle
    /\ pgPc = "run"
    /\ variant \in Variants
    /\ script \in Scripts
    /\ served = 0
    /\ product_ids = <<>>
    /\ last_id = ""

NextPages == FetchScripted

SpecPages == InitPages /\ [][NextPages]_vars

InitServer ==
    /\ PoIdle
    /\ DnIdle
    /\ ChIdle
    /\ MnIdle
    /\ ExIdle
    /\ TbIdle
    /\ StIdle
    /\ pgPc = "run"
    /\ variant \in Variants
    /\ script = <<>>
    /\ served = 0
    /\ product_ids = <<>>
    /\ last_id = ""

NextServer ==
    \/ \E answer \in AllPages \cup OddAnswers : FetchAny(answer)
    \/ FetchRaises

SpecServer == InitServer /\ [][NextServer]_vars

\* The script runs sequentially: while the loop can take an iteration, it does.
LiveServer == SpecServer /\ WF_vars(NextServer)

\* ---- claims about get_all_product_ids ------------------------------------

\* The identifiers of the items of one page, in item order.
RECURSIVE IdsOfItems(_)
IdsOfItems(items) ==
    IF items = <<>> THEN <<>>
    ELSE LET pid == DictGet(Head(items), "product_id")
         IN  (IF pid.t = "null" THEN <<>>
              ELSE IF pid.t = "int" THEN <<ToString(pid.n)>>
              ELSE <<pid.s>>) \o IdsOfItems(Tail(items))

\* The identifiers of all pages of a script, in page order.
RECURSIVE IdsOfPages(_)
IdsOfPages(sc) ==
    IF sc = <<>> THEN <<>>
    ELSE IdsOfItems(PageItems(Head(sc))) \o IdsOfPages(Tail(sc))

\* C1: fed a script of inner pages ended by one final page, the function
\* terminates without raising after exactly one request per page, and
\* returns the identifiers of all items of all pages in page and item order.
C1_CollectsAllPages ==
    /\ pgPc \in {"run", "done"}
    /\ pgPc = "run" => served < Len(script)
    /\ pgPc = "done" =>
          /\ served = Len(script)
          /\ product_ids = IdsOfPages(script)

\* C1 witness: three pages read, the last with items and an empty cursor.
C1_Witness ==
    /\ pgPc = "done"
    /\ Len(script) = 3
    /\ served = 3
    /\ PageItems(script[3]) # <<>>
    /\ Len(product_ids) >= 4

\* C2: against any server the loop of get_all_product_ids stops (returns or
\* raises) after finitely many iterations.
C2_LoopStops == <>(pgPc \in {"done", "raised"})

\* ------------------------------------------------------------------------
\* export_stocks_compact
\* ------------------------------------------------------------------------

\* Bound: SKUs are drawn from 1..MaxSku.
MaxSku == 3

\* Bound: the largest chunk_size argument tried.
MaxChunk == 2

\* Texts that int() accepts, and their values.
IsIntText(str) == str \in {"0", "1", "2", "3", "4", "5"}

TextInt(str) ==
    CASE str = "0" -> 0 [] str = "1" -> 1 [] str = "2" -> 2 [] str = "3" -> 3
      [] str = "4" -> 4 [] str = "5" -> 5

\* int(v): an integer is itself, a number with a fraction is truncated, a
\* text is parsed; anything else (and a text that is no integer) raises.
PyInt(v) ==
    CASE v.t \in {"int", "num"} -> [ok |-> TRUE, n |-> v.n]
      [] v.t = "str" /\ IsIntText(v.s) -> [ok |-> TRUE, n |-> TextInt(v.s)]
      [] OTHER -> [ok |-> FALSE, n |-> 0]

\* The value sku_meta holds for a SKU.
Meta(name, offer) == JDict(<<"name", "offer_id">>, <<name, offer>>)

\* The SKU metadata map over a set of SKUs; SKU 2 has no name of its own.
MetaFor(S) ==
    [k \in S |-> IF k = 2 THEN Meta(JNull, JNull)
                 ELSE Meta(JStr("meta name"), JStr("meta art"))]

SkuMetas == { MetaFor(S) : S \in SUBSET (1..MaxSku) }

\* sku_meta.get(k, {})
MetaGet(meta, k) == IF k \in DOMAIN meta THEN meta[k] ELSE EmptyDict

\* A stock row of /v1/analytics/stocks.
StockRow(sku, wh, avail, valid, name) ==
    JDict(<<"sku", "warehouse_id", "available_stock_count",
            "valid_stock_count", "name">>,
          <<sku, wh, avail, valid, name>>)

Row(sku, wh) == StockRow(sku, JInt(wh), JInt(3), JInt(5), JNull)

\* The data post_ozon may return for a stock request.
StockReplies ==
    { JDict(<<"items">>, <<JList(rs)>>) : rs \in
        { <<>>,
          <<Row(JInt(1), 10)>>,
          <<Row(JInt(2), 10), Row(JInt(1), 20), Row(JInt(2), 20)>>,
          <<Row(JStr("2"), 10), Row(JInt(3), 10),
            StockRow(JInt(3), JInt(20), JNull, JStr("4"), JStr("own name"))>>,
          <<Row(JNull, 10), Row(JStr("abc"), 10), Row(JInt(9), 10)>>,
          <<Row(JNum(1), 10), Row(JInt(1), 20)>>,
          <<StockRow(JNull, JInt(10), JStr("abc"), JNull, JNull), Row(JInt(2), 20)>>,
          <<Row(JInt(1), 10), StockRow(JInt(1), JInt(20), JStr("abc"), JNull, JNull)>>,
          <<Row(JInt(1), 10), JInt(7)>> } }
    \cup { JStr("<html>oops</html>"), JList(<<Row(JInt(1), 10)>>),
           JDict(<<"result">>, <<JList(<<Row(JInt(1), 10)>>)>>) }

RECURSIVE SortedSeq(_)
\* sorted(S)
SortedSeq(S) ==
    IF S = {} THEN <<>>
    ELSE LET m == CHOOSE x \in S : \A y \in S : x <= y
         IN  <<m>> \o SortedSeq(S \ {m})

Chunked_DropsPartial(lst, n) ==
    [b \in 1..(Len(lst) \div n) |-> SubSeq(lst, (b - 1) * n + 1, b * n)]

\* Slices one element too long: lst[i:i + n + 1].
Chunked_SliceOneMore(lst, n) ==
    [b \in 1..((Len(lst) + n - 1) \div n) |->
        SubSeq(lst, (b - 1) * n + 1, Min(b * n + 1, Len(lst)))]

\* chunked(lst, n): [lst[i:i + n] for i in range(0, len(lst), n)]
Chunked(lst, n) ==
    [b \in 1..((Len(lst) + n - 1) \div n) |->
        SubSeq(lst, (b - 1) * n + 1, Min(b * n, Len(lst)))]

\* get_stocks_for_skus: data["items"] when data is a dict holding a list
\* under "items", else [].
StockItems(reply) ==
    IF reply.t = "dict" /\ DictGet(reply, "items").t = "list"
    THEN DictGet(reply, "items").xs
    ELSE <<>>

\* compact_row(row, fallback_meta); ok is FALSE when int() raises on a count.
compact_row(row, fallback_meta) ==
    LET available == PyInt(OrElse(DictGet(row, "available_stock_count"), JInt(0)))
        valid == PyInt(OrElse(DictGet(row, "valid_stock_count"), JInt(0)))
    IN  [ok |-> available.ok /\ valid.ok,
         row |-> JDict(
            <<"sku", "name", "offer_id", "warehouse_id", "warehouse_name",
              "cluster_id", "cluster_name", "stock">>,
            << DictGet(row, "sku"),
               OrElse(DictGet(row, "name"), DictGet(fallback_meta, "name")),
               OrElse(DictGet(row, "offer_id"), DictGet(fallback_meta, "offer_id")),
               DictGet(row, "warehouse_id"),
               DictGet(row, "warehouse_name"),
               DictGet(row, "cluster_id"),
               DictGet(row, "cluster_name"),
               JInt(available.n + valid.n) >>)]

SeqRange(sq) == { sq[i] : i \in 1..Len(sq) }

GroupAdd_Front(lst, r) == <<r>> \o lst

\* grouped[sku_int].append(...)
GroupAdd(lst, r) == Append(lst, r)

\* The grouping loop of one batch: grouped, or ok = FALSE when a row is no
\* dict (row.get raises) or compact_row raises.
GroupRows(sku_batch, items, meta) ==
    LET G[i \in 0..Len(items)] ==
          IF i = 0 THEN [ok |-> TRUE, grouped |-> [k \in SeqRange(sku_batch) |-> <<>>]]
          ELSE LET prev == G[i - 1]
                   row == items[i]
               IN  IF ~prev.ok THEN prev
                   ELSE IF row.t # "dict" THEN [prev EXCEPT !.ok = FALSE]
                   ELSE LET sku_val == DictGet(row, "sku")
                            sku_int == PyInt(sku_val)
                        IN  IF sku_val.t = "null" \/ ~sku_int.ok THEN prev
                            ELSE LET k == sku_int.n
                                     g == IF k \in DOMAIN prev.grouped
                                          THEN prev.grouped
                                          ELSE prev.grouped @@ (k :> <<>>)
                                     c == compact_row(row, MetaGet(meta, k))
                                 IN  IF ~c.ok THEN [prev EXCEPT !.ok = FALSE]
                                     ELSE [ok |-> TRUE,
                                           grouped |-> [g EXCEPT ![k] = GroupAdd(@, c.row)]]
    IN  G[Len(items)]

\* One f.write: a literal text, or a text followed by json.dumps(obj).
WText(str) == [k |-> "text", text |-> str, json |-> JNull]

WJson(str, obj) == [k |-> "json", text |-> str, json |-> obj]

\* obj = {"sku": str(s), "items": grouped.get(s, [])}
SkuObj(sk, grouped) ==
    JDict(<<"sku", "items">>,
          <<JStr(ToString(sk)),
            JList(IF sk \in DOMAIN grouped THEN grouped[sk] ELSE <<>>)>>)

\* The writing loop of one batch: the file and first_sku_obj after it.
WriteBatch(file, first, sku_batch, grouped) ==
    LET W[i \in 0..Len(sku_batch)] ==
          IF i = 0 THEN [file |-> file, first |-> first]
          ELSE [file |-> (IF W[i - 1].first THEN W[i - 1].file
                          ELSE Append(W[i - 1].file, WText(",\n")))
                         \o <<WJson("  ", SkuObj(sku_batch[i], grouped))>>,
                first |-> FALSE]
    IN  W[Len(sku_batch)]

\* Up to the loop: skus = sorted(sku_meta.keys()), open, f.write("[\n").
ExportOpen ==
    /\ stPc = "start"
    /\ skus' = SortedSeq(DOMAIN sku_meta)
    /\ f' = <<WText("[\n")>>
    /\ first_sku_obj' = TRUE
    /\ stPc' = "run"
    /\ UNCHANGED <<sku_meta, chunk_size, batchNo, replies>>
    /\ UNCHANGED <<poVars, pgVars, tbVars, exVars>>
    /\ UNCHANGED <<dnVars, chVars, mnVars>>

\* One iteration of the batch loop, given the data post_ozon returned.
ExportBatch(reply) ==
    /\ stPc = "run"
    /\ batchNo < Len(Chunked(skus, chunk_size))
    /\ LET sku_batch == Chunked(skus, chunk_size)[batchNo + 1]
           g == GroupRows(sku_batch, StockItems(reply), sku_meta)
           w == WriteBatch(f, first_sku_obj, sku_batch, g.grouped)
       IN  IF g.ok
           THEN /\ f' = w.file
                /\ first_sku_obj' = w.first
                /\ stPc' = "run"
           ELSE /\ stPc' = "crashed"
                /\ UNCHANGED <<f, first_sku_obj>>
    /\ batchNo' = batchNo + 1
    /\ replies' = Append(replies, reply)
    /\ UNCHANGED <<sku_meta, chunk_size, skus>>
    /\ UNCHANGED <<poVars, pgVars, tbVars, exVars>>
    /\ UNCHANGED <<dnVars, chVars, mnVars>>

\* An iteration whose post_ozon call raises.
ExportBatchRaises ==
    /\ stPc = "run"
    /\ batchNo < Len(Chunked(skus, chunk_size))
    /\ stPc' = "crashed"
    /\ UNCHANGED <<sku_meta, chunk_size, skus, batchNo, f, first_sku_obj, replies>>
    /\ UNCHANGED <<poVars, pgVars, tbVars, exVars>>
    /\ UNCHANGED <<dnVars, chVars, mnVars>>

\* After the loop: f.write("\n]\n").
ExportClose ==
    /\ stPc = "run"
    /\ batchNo = Len(Chunked(skus, chunk_size))
    /\ f' = Append(f, WText("\n]\n"))
    /\ stPc' = "done"
    /\ UNCHANGED <<sku_meta, chunk_size, skus, batchNo, first_sku_obj, replies>>
    /\ UNCHANGED <<poVars, pgVars, tbVars, exVars>>
    /\ UNCHANGED <<dnVars, chVars, mnVars>>

InitStocks ==
    /\ PoIdle
    /\ DnIdle
    /\ ChIdle
    /\ MnIdle
    /\ ExIdle
    /\ TbIdle
    /\ PgIdle
    /\ stPc = "start"
    /\ sku_meta \in SkuMetas
    /\ chunk_size \in 1..MaxChunk
    /\ skus = <<>>
    /\ batchNo = 0
    /\ f = <<>>
    /\ first_sku_obj = TRUE
    /\ replies = <<>>

NextStocks ==
    \/ ExportOpen
    \/ \E reply \in StockReplies : ExportBatch(reply)
    \/ ExportBatchRaises
    \/ ExportClose

SpecStocks == InitStocks /\ [][NextStocks]_vars

\* ---- claims about export_stocks_compact ----------------------------------

\* The {sku, items} records written to the file, in file order.
RECURSIVE WrittenObjs(_)
WrittenObjs(file) ==
    IF file = <<>> THEN <<>>
    ELSE (IF Head(file).k = "json" THEN <<Head(file).json>> ELSE <<>>)
         \o WrittenObjs(Tail(file))

\* The SKU a stock row reports, read as an integer: an integer, the integer
\* part of a number, the value of a decimal text; 0 when it reports none.
C7_ReportedSku(row) ==
    LET v == DictGet(row, "sku")
    IN  CASE v.t \in {"int", "num"} -> v.n
          [] v.t = "str" /\ \E k \in 1..9 : ToString(k) = v.s ->
                CHOOSE k \in 1..9 : ToString(k) = v.s
          [] OTHER -> 0

\* The compacted rows a reply holds for SKU sk, in response order.
RECURSIVE C7_RowsFor(_, _)
C7_RowsFor(sk, rs) ==
    IF rs = <<>> THEN <<>>
    ELSE (IF C7_ReportedSku(Head(rs)) = sk
          THEN <<compact_row(Head(rs), MetaGet(sku_meta, sk)).row>>
          ELSE <<>>) \o C7_RowsFor(sk, Tail(rs))

\* The rows of a reply: the list under "items" of an object, else none.
C7_ReplyRows(reply) ==
    IF reply.t = "dict" /\ HasKey(reply, "items") THEN DictGet(reply, "items").xs
    ELSE <<>>

MaxClusters == 3

RECURSIVE pick(_, _)
\* pick(d, *keys): the value of the first key of keys that d holds with a
\* value other than None, "" and []; None when there is none.
pick(d, keys) ==
    IF keys = <<>> THEN JNull
    ELSE IF HasKey(d, Head(keys))
            /\ DictGet(d, Head(keys)) \notin {JNull, JStr(""), EmptyList}
         THEN DictGet(d, Head(keys))
         ELSE pick(d, Tail(keys))

\* "warehouse" in str(k).lower(), for the keys the cluster records use.
IsWarehouseKey(k) ==
    k \in {"warehouses", "warehouse_ids", "Warehouses", "fbo_warehouse_list"}

\* str(x) if x is not None else None
StrOrNone(v) == IF v.t = "null" THEN JNull ELSE JStr(PyStr(v))

Ref(wid, nm) == [wid |-> wid, nm |-> nm]

AllOfType(lst, types) == \A i \in 1..Len(lst) : lst[i].t \in types

RECURSIVE refs_walk(_), refs_walk_dict(_, _), refs_walk_list(_, _), add_from_list(_)

\* add_from_list(lst): a list of dicts gives one reference per dict, a list
\* of ints and strs one bare identifier per element; any other list is
\* walked element by element.
add_from_list(lst) ==
    IF lst # <<>> /\ AllOfType(lst, {"dict"})
    THEN [i \in 1..Len(lst) |->
            Ref(StrOrNone(pick(lst[i], <<"warehouse_id", "id", "warehouseId">>)),
                StrOrNone(pick(lst[i], <<"name", "warehouse_name", "title",
                                         "warehouseName">>)))]
    ELSE IF lst # <<>> /\ AllOfType(lst, {"int", "str"})
    THEN [i \in 1..Len(lst) |-> Ref(JStr(PyStr(lst[i])), JNull)]
    ELSE refs_walk_list(lst, 1)

\* for k, v in x.items(), from the i-th item on
refs_walk_dict(x, i) ==
    IF i > Len(x.ks) THEN <<>>
    ELSE (IF IsWarehouseKey(x.ks[i]) /\ x.xs[i].t = "list"
          THEN add_from_list(x.xs[i].xs)
          ELSE refs_walk(x.xs[i]))
         \o refs_walk_dict(x, i + 1)

\* for i in x: walk(i), from the i-th element on
refs_walk_list(lst, i) ==
    IF i > Len(lst) THEN <<>>
    ELSE refs_walk(lst[i]) \o refs_walk_list(lst, i + 1)

\* walk(x) of collect_warehouse_refs
refs_walk(x) ==
    IF x.t = "dict" THEN refs_walk_dict(x, 1)
    ELSE IF x.t = "list" THEN refs_walk_list(x.xs, 1)
    ELSE <<>>

\* collect_warehouse_refs(node): the (warehouse_id, warehouse_name) pairs
collect_warehouse_refs(node) == refs_walk(node)

\* str(cid).isdigit()
IsDigits(cid) ==
    \/ cid.t = "int" /\ cid.n >= 0
    \/ cid.t = "str" /\ IsIntText(cid.s)

\* int(cid) if str(cid).isdigit() else cid
IdClusterOzon(cid) ==
    IF IsDigits(cid) THEN JInt(PyInt(cid).n) ELSE cid

AlreadyMapped_Never(cid_s, map) == FALSE

\* cid_s in map_cluster_to_region_id
AlreadyMapped(cid_s, map) == cid_s \in DOMAIN map

\* A row of the region table: id, "Регион", id_cluster_ozon.
Region(rid, name, cid) == [id |-> rid, name |-> name, id_cluster_ozon |-> cid]

\* A row of the warehouse table: id (None), "Склад", "idРегион",
\* warehouse_id_ozon.
Warehouse(nm, rid, wid) ==
    [id |-> JNull, name |-> nm, region_id |-> rid, warehouse_id_ozon |-> wid]

\* Cluster records of /v1/cluster/list.
ClusterRecords ==
    { JDict(<<"id", "name", "logistic_clusters">>,
            <<JInt(1), JStr("Moscow"),
              JList(<<JDict(<<"warehouses">>,
                   <<JList(<<JDict(<<"warehouse_id", "name">>, <<JInt(10), JStr("W10")>>),
                             JDict(<<"warehouse_id">>, <<JInt(11)>>)>>)>>)>>)>>),
      JDict(<<"cluster_id", "cluster_name", "title", "warehouse_ids">>,
            <<JInt(2), JStr(""), JStr("SPb"), JList(<<JInt(10), JStr("12"), JStr("")>>)>>),
      JDict(<<"id", "name", "warehouses">>,
            <<JStr("1"), JStr("Moscow again"),
              JList(<<JDict(<<"warehouse_id", "name">>, <<JInt(10), JStr("W10 bis")>>),
                      JDict(<<"name">>, <<JStr("Depot")>>),
                      JDict(<<"id", "title">>, <<JInt(13), JStr("W13")>>),
                      JDict(<<"warehouse_name">>, <<JStr("Depot")>>)>>)>>),
      JDict(<<"cluster_id", "id", "name", "warehouses">>,
            <<JStr(""), JNull, JStr("no id"),
              JList(<<JDict(<<"warehouse_id", "name">>, <<JInt(14), JStr("W14")>>)>>)>>),
      JDict(<<"cluster_id", "Warehouses">>,
            <<JStr("c3"),
              JList(<<JDict(<<"name">>, <<JStr("10")>>),
                      JInt(10),
                      JList(<<JDict(<<"fbo_warehouse_list">>,
                                    <<JList(<<JDict(<<"id", "name">>,
                                                    <<JStr("10"), JStr("W10 late")>>)>>)>>)>>)>>)>>),
      JDict(<<"cluster_id", "id", "warehouses", "macrolocal">>,
            <<JNull, JInt(2), JList(<<>>),
              JDict(<<"warehouse_ids">>, <<JList(<<JInt(11), JInt(15)>>)>>)>>) }

ClusterLists ==
    UNION { [1..n -> ClusterRecords] : n \in 0..MaxClusters }

\* Directories get_fbo_warehouse_map may return.
WarehouseMaps ==
    { <<>>,
      ("10" :> "Dir10") @@ ("11" :> "Dir11") @@ ("12" :> "Dir12") }

\* One iteration of the loop of build_regions.
RegionStep ==
    /\ tbPc = "regions"
    /\ consumed < Len(clusters)
    /\ LET c == clusters[consumed + 1]
           cid == pick(c, <<"cluster_id", "id">>)
       IN  IF cid = JNull \/ AlreadyMapped(PyStr(cid), map_cluster_to_region_id)
           THEN UNCHANGED <<regions, map_cluster_to_region_id, next_id>>
           ELSE /\ next_id' = next_id + 1
                /\ map_cluster_to_region_id' =
                      (PyStr(cid) :> next_id) @@ map_cluster_to_region_id
                /\ regions' = Append(regions,
                      Region(next_id,
                             pick(c, <<"cluster_name", "name", "title">>),
                             IdClusterOzon(cid)))
    /\ consumed' = consumed + 1
    /\ UNCHANGED <<tbPc, clusters, warehouse_map, rows, seen>>
    /\ UNCHANGED <<poVars, pgVars, stVars, exVars>>
    /\ UNCHANGED <<dnVars, chVars, mnVars>>

\* build_regions returns; build_warehouses starts on the same clusters.
RegionsReturn ==
    /\ tbPc = "regions"
    /\ consumed = Len(clusters)
    /\ tbPc' = "warehouses"
    /\ consumed' = 0
    /\ rows' = <<>>
    /\ seen' = {}
    /\ UNCHANGED <<clusters, warehouse_map, regions, map_cluster_to_region_id,
                   next_id>>
    /\ UNCHANGED <<poVars, pgVars, stVars, exVars>>
    /\ UNCHANGED <<dnVars, chVars, mnVars>>

\* The name of a reference after the directory lookup.
ResolvedName(ref, wmap) ==
    IF (ref.nm = JNull \/ ref.nm = JStr("")) /\ ref.wid # JNull
       /\ ref.wid.s \in DOMAIN wmap
    THEN JStr(wmap[ref.wid.s])
    ELSE ref.nm

SeenKey_NoRegion(rid, wid, nm) == <<0, OrElse(wid, nm).s>>

\* key = (rid, wid or nm)
SeenKey(rid, wid, nm) == <<rid, OrElse(wid, nm).s>>

\* The loop over the references of one cluster: rows and seen after it.
AddRefs(refs, rid, wmap, rows0, seen0) ==
    LET A[i \in 0..Len(refs)] ==
          IF i = 0 THEN [rows |-> rows0, seen |-> seen0]
          ELSE LET prev == A[i - 1]
                   wid == refs[i].wid
                   nm == ResolvedName(refs[i], wmap)
               IN  IF ~Truthy(nm) THEN prev
                   ELSE IF SeenKey(rid, wid, nm) \in prev.seen THEN prev
                   ELSE [rows |-> Append(prev.rows, Warehouse(nm, rid, wid)),
                         seen |-> prev.seen \cup {SeenKey(rid, wid, nm)}]
    IN  A[Len(refs)]

\* One iteration of the outer loop of build_warehouses.
WarehouseStep ==
    /\ tbPc = "warehouses"
    /\ consumed < Len(clusters)
    /\ LET c == clusters[consumed + 1]
           cid == pick(c, <<"cluster_id", "id">>)
       IN  IF cid = JNull \/ PyStr(cid) \notin DOMAIN map_cluster_to_region_id
           THEN UNCHANGED <<rows, seen>>
           ELSE LET r == AddRefs(collect_warehouse_refs(c),
                                 map_cluster_to_region_id[PyStr(cid)],
                                 warehouse_map, rows, seen)
                IN  rows' = r.rows /\ seen' = r.seen
    /\ consumed' = consumed + 1
    /\ UNCHANGED <<tbPc, clusters, warehouse_map, regions,
                   map_cluster_to_region_id, next_id>>
    /\ UNCHANGED <<poVars, pgVars, stVars, exVars>>
    /\ UNCHANGED <<dnVars, chVars, mnVars>>

\* build_warehouses returns.
WarehousesReturn ==
    /\ tbPc = "warehouses"
    /\ consumed = Len(clusters)
    /\ tbPc' = "done"
    /\ UNCHANGED <<clusters, warehouse_map, consumed, regions,
                   map_cluster_to_region_id, next_id, rows, seen>>
    /\ UNCHANGED <<poVars, pgVars, stVars, exVars>>
    /\ UNCHANGED <<dnVars, chVars, mnVars>>

InitTables ==
    /\ PoIdle
    /\ DnIdle
    /\ ChIdle
    /\ MnIdle
    /\ ExIdle
    /\ PgIdle
    /\ StIdle
    /\ tbPc = "regions"
    /\ clusters \in ClusterLists
    /\ warehouse_map \in WarehouseMaps
    /\ consumed = 0
    /\ regions = <<>>
    /\ map_cluster_to_region_id = <<>>
    /\ next_id = 1
    /\ rows = <<>>
    /\ seen = {}

NextTables ==
    \/ RegionStep
    \/ RegionsReturn
    \/ WarehouseStep
    \/ WarehousesReturn

SpecTables == InitTables /\ [][NextTables]_vars

\* ---- claims about build_regions and build_warehouses ---------------------

\* The identifier of a cluster record as text: that of cluster_id, else that
\* of id; "" when the record has neither.
C8_IdText(c) ==
    LET usable(v) == v.t \in {"int", "str"} /\ v # JStr("")
        text(v) == IF v.t = "int" THEN ToString(v.n) ELSE v.s
    IN  IF usable(DictGet(c, "cluster_id")) THEN text(DictGet(c, "cluster_id"))
        ELSE IF usable(DictGet(c, "id")) THEN text(DictGet(c, "id"))
        ELSE ""

\* The distinct identifiers of a list of cluster records, in the order in
\* which each is first met.
RECURSIVE C8_FirstMet(_)
C8_FirstMet(cs) ==
    IF cs = <<>> THEN <<>>
    ELSE LET before == C8_FirstMet(SubSeq(cs, 1, Len(cs) - 1))
             idt == C8_IdText(cs[Len(cs)])
         IN  IF idt = "" \/ idt \in SeqRange(before) THEN before
             ELSE Append(before, idt)

\* The cluster records build_regions has consumed so far.
C8_Consumed ==
    IF tbPc = "regions" THEN SubSeq(clusters, 1, consumed) ELSE clusters

\* C8: build_regions holds exactly one Region per distinct cluster identifier
\* met; the local ids are 1..n without gap in first-met order, and every
\* identifier, however often it occurs, maps to the id of its first
\* occurrence.
C8_OneRegionPerCluster ==
    tbPc # "idle" =>
        LET ids == C8_FirstMet(C8_Consumed)
        IN  /\ Len(regions) = Len(ids)
            /\ DOMAIN map_cluster_to_region_id = SeqRange(ids)
            /\ \A i \in 1..Len(ids) :
                  /\ regions[i].id = i
                  /\ map_cluster_to_region_id[ids[i]] = i
                  /\ PyStr(regions[i].id_cluster_ozon) = ids[i]

\* C8 witness: three records, the third repeating the identifier of the first
\* (as text), gave two Regions.
C8_Witness ==
    /\ tbPc = "warehouses"
    /\ Len(clusters) = 3
    /\ C8_IdText(clusters[1]) = C8_IdText(clusters[3])
    /\ C8_IdText(clusters[1]) # C8_IdText(clusters[2])
    /\ C8_IdText(clusters[2]) # ""
    /\ Len(regions) = 2

\* The references of a list of cluster records, each with the local id of its
\* region and its resolved name (own name, else the directory's name for its
\* identifier, else none), in the order met.
RECURSIVE C9_Refs(_)
C9_Refs(cs) ==
    IF cs = <<>> THEN <<>>
    ELSE LET c == cs[Len(cs)]
             refs == collect_warehouse_refs(c)
             own(r) == r.nm # JNull /\ r.nm.s # ""
             named(r) == own(r) \/ (r.wid # JNull /\ r.wid.s \in DOMAIN warehouse_map)
         IN  C9_Refs(SubSeq(cs, 1, Len(cs) - 1)) \o
             (IF C8_IdText(c) = "" THEN <<>>
              ELSE [i \in 1..Len(refs) |->
                      [rid |-> map_cluster_to_region_id[C8_IdText(c)],
                       wid |-> refs[i].wid,
                       named |-> named(refs[i]),
                       name |-> IF own(refs[i]) THEN refs[i].nm.s
                                ELSE IF named(refs[i]) THEN warehouse_map[refs[i].wid.s]
                                ELSE ""]])

\* The key of a reference: region local id and warehouse identifier, or name
\* when there is no identifier.
C9_Key(r) ==
    <<r.rid, IF r.wid # JNull /\ r.wid.s # "" THEN r.wid.s ELSE r.name>>

\* The named references that are the first of their key, in order.
RECURSIVE C9_FirstOfKey(_)
C9_FirstOfKey(rs) ==
    IF rs = <<>> THEN <<>>
    ELSE LET before == SubSeq(rs, 1, Len(rs) - 1)
             r == rs[Len(rs)]
         IN  C9_FirstOfKey(before) \o
             (IF r.named /\ ~\E j \in 1..Len(before) :
                                before[j].named /\ C9_Key(before[j]) = C9_Key(r)
              THEN <<r>> ELSE <<>>)

\* The cluster records build_warehouses has consumed so far.
C9_Consumed ==
    IF tbPc = "warehouses" THEN SubSeq(clusters, 1, consumed)
    ELSE IF tbPc = "done" THEN clusters ELSE <<>>

\* C9: the warehouse table holds exactly one row per distinct key among the
\* references with a resolvable name: the first reference met with the key,
\* rows in first-occurrence order; a reference without a resolvable name
\* gives no row.
C9_OneRowPerKey ==
    tbPc \in {"warehouses", "done"} =>
        LET kept == C9_FirstOfKey(C9_Refs(C9_Consumed))
        IN  /\ Len(rows) = Len(kept)
            /\ \A i \in 1..Len(kept) :
                  /\ rows[i].name = JStr(kept[i].name)
                  /\ rows[i].region_id = kept[i].rid
                  /\ rows[i].warehouse_id_ozon = kept[i].wid
            /\ \A i, j \in 1..Len(rows) :
                  (/\ rows[i].region_id = rows[j].region_id
                   /\ OrElse(rows[i].warehouse_id_ozon, rows[i].name)
                        = OrElse(rows[j].warehouse_id_ozon, rows[j].name))
                  => i = j

\* C9 witness: a finished table where a repeated (region, identifier) pair, a
\* repeated name-only reference and an unnamed reference were met, and the
\* same warehouse identifier stands under two regions.
C9_Witness ==
    /\ tbPc = "done"
    /\ \E i, j \in 1..Len(rows) :
          /\ rows[i].warehouse_id_ozon = JStr("10")
          /\ rows[j].warehouse_id_ozon = JStr("10")
          /\ rows[i].region_id # rows[j].region_id
    /\ \E i \in 1..Len(rows) :
          rows[i].warehouse_id_ozon = JNull /\ rows[i].name = JStr("Depot")
    /\ LET all == C9_Refs(clusters)
       IN  /\ \E i \in 1..Len(all) : ~all[i].named
           /\ \E i, j \in 1..Len(all) :
                 i < j /\ all[i].named /\ all[j].named
                 /\ all[i].wid # JNull /\ C9_Key(all[i]) = C9_Key(all[j])
           /\ Len(rows) < Len(all)

\* ------------------------------------------------------------------------
\* fbo_clusters.py: find_best_list_of_dicts, extract_clusters
\* ------------------------------------------------------------------------

priority_keys == <<"clusters", "items", "result", "data">>

\* _is_list_of_dicts(x)
is_list_of_dicts(x) == x.t = "list" /\ AllOfType(x.xs, {"dict"})

Longer_OrEqual(cand, cur) == Len(cand) >= Len(cur)

\* len(cand) > len(best)
Longer(cand, cur) == Len(cand) > Len(cur)

\* A path is kept as its components: f"{path}.{k}" appends the key k,
\* f"{path}[{i}]" the index "[i]"; "" is the empty sequence.
PathKey(pth, k) == Append(pth, k)

PathIndex(pth, i) == Append(pth, "[" \o ToString(i) \o "]")

Best(lst, pth) == [best |-> lst, best_path |-> pth]

\* The loop over priority_keys at a dict node.
PriorityScan(node, pth, st) ==
    LET S[i \in 0..Len(priority_keys)] ==
          IF i = 0 THEN st
          ELSE LET k == priority_keys[i]
               IN  IF HasKey(node, k) /\ is_list_of_dicts(DictGet(node, k))
                      /\ Longer(DictGet(node, k).xs, S[i - 1].best)
                   THEN Best(DictGet(node, k).xs, PathKey(pth, k))
                   ELSE S[i - 1]
    IN  S[Len(priority_keys)]

\* A walk that does not enter the elements of a list.
walk_elems_NotEntered(node, pth, i, st) == st

RECURSIVE walk(_, _, _), walk_items(_, _, _, _), walk_elems(_, _, _, _)

\* for k, v in node.items(): walk(v, ...), from the i-th item on
walk_items(node, pth, i, st) ==
    IF i > Len(node.ks) THEN st
    ELSE walk_items(node, pth, i + 1,
                    walk(node.xs[i], PathKey(pth, node.ks[i]), st))

\* for i, v in enumerate(node): walk(v, ...), from the i-th element on
walk_elems(node, pth, i, st) ==
    IF i > Len(node.xs) THEN st
    ELSE walk_elems(node, pth, i + 1,
                    walk(node.xs[i], PathIndex(pth, i - 1), st))

\* walk(node, path) of find_best_list_of_dicts; st holds best and best_path
walk(node, pth, st) ==
    IF node.t = "dict"
    THEN walk_items(node, pth, 1, PriorityScan(node, pth, st))
    ELSE IF node.t = "list"
    THEN IF is_list_of_dicts(node)
         THEN IF Longer(node.xs, st.best)
              THEN Best(node.xs, IF pth = <<>> THEN <<"<root_list>">> ELSE pth)
              ELSE st
         ELSE walk_elems(node, pth, 1, st)
    ELSE st

\* find_best_list_of_dicts(obj) -> (best, best_path)
find_best_list_of_dicts(obj) == walk(obj, <<>>, Best(<<>>, <<>>))

\* Records and lists of records a response may hold.
Rec(i) == JDict(<<"id">>, <<JInt(i)>>)

RecLists ==
    { EmptyList, JList(<<Rec(1)>>), JList(<<Rec(2)>>), JList(<<Rec(1), Rec(2)>>) }

\* Objects with one key.
Envelopes1 ==
    { JDict(<<k>>, <<v>>) :
        k \in {"clusters", "items", "result", "data", "a"},
        v \in RecLists \cup {JInt(7)} }

\* Objects with two keys, over lists of records and one-key objects.
Envelopes2 ==
    { JDict(<<k[1], k[2]>>, <<v1, v2>>) :
        k \in { kk \in {"a", "items", "result"} \X {"a", "items", "result"} :
                 kk[1] # kk[2] },
        v1 \in RecLists \cup Envelopes1,
        v2 \in RecLists \cup Envelopes1 }

\* Bare lists, lists that are not all records, records nested in records.
OtherShapes ==
    RecLists
    \cup { JList(<<JInt(7), e>>) : e \in Envelopes1 }
    \cup { JDict(<<"result">>, <<JList(<<JDict(<<"clusters">>, <<l>>)>>)>>) : l \in RecLists }
    \cup { JStr("<html>oops</html>"), JNull }

ClusterResponses == Envelopes1 \cup Envelopes2 \cup OtherShapes

\* extract_clusters, from the data post_ozon returned: find the list, raise
\* when it is empty, else return it.
ExtractClusters ==
    /\ exPc = "start"
    /\ LET r == find_best_list_of_dicts(data)
       IN  /\ best' = r.best
           /\ best_path' = r.best_path
           /\ exPc' = IF r.best = <<>> THEN "raised" ELSE "returned"
    /\ UNCHANGED data
    /\ UNCHANGED <<poVars, pgVars, stVars, tbVars>>
    /\ UNCHANGED <<dnVars, chVars, mnVars>>

InitExtract ==
    /\ PoIdle
    /\ DnIdle
    /\ ChIdle
    /\ MnIdle
    /\ PgIdle
    /\ StIdle
    /\ TbIdle
    /\ exPc = "start"
    /\ data \in ClusterResponses
    /\ best = <<>>
    /\ best_path = <<>>

NextExtract == ExtractClusters

SpecExtract == InitExtract /\ [][NextExtract]_vars

\* ---- claims about find_best_list_of_dicts --------------------------------

RECURSIVE C10_Cands(_, _), C10_CandsItems(_, _, _), C10_CandsElems(_, _, _)

\* The candidate lists of a response in the order the depth-first walk meets
\* them, each with its path and length: at an object its own priority keys in
\* priority order, then what its values hold, value by value; a list of
\* records is a candidate and is not entered.
C10_Cands(node, pth) ==
    IF node.t = "dict"
    THEN LET own == [i \in 1..Len(priority_keys) |->
                       LET v == DictGet(node, priority_keys[i])
                       IN  IF HasKey(node, priority_keys[i]) /\ is_list_of_dicts(v)
                           THEN <<[path |-> Append(pth, priority_keys[i]),
                                   len |-> Len(v.xs)]>>
                           ELSE <<>>]
         IN  own[1] \o own[2] \o own[3] \o own[4] \o C10_CandsItems(node, pth, 1)
    ELSE IF node.t = "list"
    THEN IF is_list_of_dicts(node)
         THEN <<[path |-> IF pth = <<>> THEN <<"<root_list>">> ELSE pth,
                 len |-> Len(node.xs)]>>
         ELSE C10_CandsElems(node, pth, 1)
    ELSE <<>>

C10_CandsItems(node, pth, i) ==
    IF i > Len(node.ks) THEN <<>>
    ELSE C10_Cands(node.xs[i], Append(pth, node.ks[i]))
         \o C10_CandsItems(node, pth, i + 1)

C10_CandsElems(node, pth, i) ==
    IF i > Len(node.xs) THEN <<>>
    ELSE C10_Cands(node.xs[i], Append(pth, "[" \o ToString(i - 1) \o "]"))
         \o C10_CandsElems(node, pth, i + 1)

C10_MaxLen(cands) ==
    IF cands = <<>> THEN 0
    ELSE CHOOSE m \in { cands[i].len : i \in 1..Len(cands) } :
            \A i \in 1..Len(cands) : cands[i].len <= m

\* Depth of a candidate in the response: the components of its path (a bare
\* root list has depth 0).
C10_Depth(pth) == IF pth = <<"<root_list>">> THEN 0 ELSE Len(pth)

\* Position of a key in priority_keys, 5 for any other key.
C10_Rank(k) ==
    IF \E i \in 1..4 : priority_keys[i] = k
    THEN CHOOSE i \in 1..4 : priority_keys[i] = k
    ELSE 5

C10_Parent(pth) == SubSeq(pth, 1, Len(pth) - 1)

\* C10 as stated: among the candidates of maximal length the one returned is
\* the shallowest, and no other of them stands under an earlier priority key
\* than the one returned.
C10_ShallowerAndEarlierKeyWin ==
    exPc = "returned" =>
        LET cands == C10_Cands(data, <<>>)
            m == C10_MaxLen(cands)
        IN  \A i \in 1..Len(cands) :
               cands[i].len = m =>
                  /\ C10_Depth(best_path) <= C10_Depth(cands[i].path)
                  /\ (/\ C10_Rank(best_path[Len(best_path)]) <= 4
                      /\ C10_Rank(cands[i].path[Len(cands[i].path)]) <= 4)
                     => C10_Rank(best_path[Len(best_path)])
                           <= C10_Rank(cands[i].path[Len(cands[i].path)])

\* C10 amended: the list returned is the first candidate of maximal length in
\* the order of the depth-first walk; between two such candidates under
\* priority keys of the same object the earlier priority key is returned.
C10_FirstFoundWins ==
    exPc = "returned" =>
        LET cands == C10_Cands(data, <<>>)
            m == C10_MaxLen(cands)
            first == CHOOSE i \in 1..Len(cands) :
                        /\ cands[i].len = m
                        /\ \A j \in 1..(i - 1) : cands[j].len < m
        IN  /\ m > 0
            /\ Len(best) = m
            /\ best_path = cands[first].path
            /\ \A i \in 1..Len(cands) :
                  (/\ cands[i].len = m
                   /\ C10_Parent(cands[i].path) = C10_Parent(best_path)
                   /\ C10_Rank(cands[i].path[Len(cands[i].path)]) <= 4
                   /\ C10_Rank(best_path[Len(best_path)]) <= 4)
                  => C10_Rank(best_path[Len(best_path)])
                        <= C10_Rank(cands[i].path[Len(cands[i].path)])

\* C10 witness: two candidates of the maximal length at different depths, the
\* deeper one met first and returned.
C10_Witness ==
    /\ exPc = "returned"
    /\ LET cands == C10_Cands(data, <<>>)
       IN  \E i \in 1..Len(cands) :
              /\ cands[i].len = Len(best)
              /\ C10_Depth(cands[i].path) < C10_Depth(best_path)

RECURSIVE C11_Reached(_)

\* The values the walk reaches from a response: the response, the values of
\* every object reached, and the elements of every list reached that is not
\* itself a list of records.
C11_Reached(node) ==
    {node} \cup
    IF node.t = "dict" \/ (node.t = "list" /\ ~is_list_of_dicts(node))
    THEN UNION { C11_Reached(node.xs[i]) : i \in 1..Len(node.xs) }
    ELSE {}

\* The candidates of a response: the lists of records among the values reached.
C11_Candidates(node) == { c \in C11_Reached(node) : is_list_of_dicts(c) }

\* C11: once extract_clusters has ended, the list find_best_list_of_dicts
\* returned is a candidate of the walk and no candidate is longer; the list
\* and the path returned are empty exactly when every candidate is empty, and
\* extract_clusters has raised exactly then.
C11_BestLengthOrRaise ==
    exPc \in {"returned", "raised"} =>
        LET cands == C11_Candidates(data)
        IN  /\ \A c \in cands : Len(c.xs) <= Len(best)
            /\ best # <<>> => JList(best) \in cands
            /\ (best = <<>> /\ best_path = <<>>)
                  <=> (\A c \in cands : c.xs = <<>>)
            /\ (best = <<>>) <=> (best_path = <<>>)
            /\ (exPc = "raised") <=> (best = <<>>)

\* C11 witness: a response holding non-empty candidates of two lengths, the
\* shorter met first, and extract_clusters has returned the longer.
C11_Witness ==
    /\ exPc = "returned"
    /\ Len(best) = 2
    /\ LET cands == C10_Cands(data, <<>>)
       IN  /\ cands[1].len = 1
           /\ \E c \in C11_Candidates(data) : Len(c.xs) = 1

\* ------------------------------------------------------------------------
\* What the pipelines do with the data post_ozon returned
\* ------------------------------------------------------------------------

\* [x for x in xs if isinstance(x, dict)]
OnlyDicts(xs) == SelectSeq(xs, LAMBDA x : x.t = "dict")

\* stock_ozon.py: extract_attributes_items(data)
extract_attributes_items(reply) ==
    IF reply.t = "dict"
    THEN LET r == DictGet(reply, "result")
         IN  IF r.t = "list" THEN OnlyDicts(r.xs)
             ELSE IF r.t = "dict" /\ DictGet(r, "items").t = "list"
             THEN OnlyDicts(DictGet(r, "items").xs)
             ELSE IF DictGet(reply, "items").t = "list"
             THEN OnlyDicts(DictGet(reply, "items").xs)
             ELSE <<>>
    ELSE IF reply.t = "list" THEN OnlyDicts(reply.xs)
    ELSE <<>>

\* export_products_ozon.py: extract_items_from_attributes_response(data)
extract_items_from_attributes_response(reply) ==
    IF reply.t = "dict"
    THEN LET result == DictGet(reply, "result")
         IN  IF result.t = "list" THEN OnlyDicts(result.xs)
             ELSE IF result.t = "dict" /\ DictGet(result, "items").t = "list"
             THEN OnlyDicts(DictGet(result, "items").xs)
             ELSE IF DictGet(reply, "items").t = "list"
             THEN OnlyDicts(DictGet(reply, "items").xs)
             ELSE <<>>
    ELSE IF reply.t = "list" THEN OnlyDicts(reply.xs)
    ELSE <<>>

\* The functions that receive the data of a post_ozon call, and the endpoint
\* each of them calls.
Consumers ==
    { "stock_ozon.get_all_product_ids",
      "export_products_ozon.get_all_product_ids",
      "stock_ozon.extract_attributes_items",
      "export_products_ozon.extract_items_from_attributes_response",
      "stock_ozon.get_stocks_for_skus" }

ConsumerPath(step) ==
    CASE step \in { "stock_ozon.get_all_product_ids",
                    "export_products_ozon.get_all_product_ids" }
           -> "/v3/product/list"
      [] step \in { "stock_ozon.extract_attributes_items",
                    "export_products_ozon.extract_items_from_attributes_response" }
           -> "/v4/product/info/attributes"
      [] step = "stock_ozon.get_stocks_for_skus" -> "/v1/analytics/stocks"

\* What a consumer comes to on the data returned: the records (for the
\* listing, the identifiers of its first iteration) or an exception.
ConsumerResult(step, reply) ==
    CASE step = "stock_ozon.get_all_product_ids" ->
           LET r == PageStep("stock_ozon", reply, <<>>, "")
           IN  [raised |-> r.pc = "raised", items |-> r.ids]
      [] step = "export_products_ozon.get_all_product_ids" ->
           LET r == PageStep("export_products_ozon", reply, <<>>, "")
           IN  [raised |-> r.pc = "raised", items |-> r.ids]
      [] step = "stock_ozon.extract_attributes_items" ->
           [raised |-> FALSE, items |-> extract_attributes_items(reply)]
      [] step = "export_products_ozon.extract_items_from_attributes_response" ->
           [raised |-> FALSE,
            items |-> extract_items_from_attributes_response(reply)]
      [] step = "stock_ozon.get_stocks_for_skus" ->
           [raised |-> FALSE, items |-> StockItems(reply)]

\* A consumer calls post_ozon on its endpoint.
ConsumerCall(step, r) ==
    /\ dnPc = "idle"
    /\ PostCall(ConsumerPath(step), r)

\* post_ozon has returned: the consumer works on the data.
Consume(step) ==
    /\ dnPc = "idle"
    /\ poPc = "done"
    /\ outcome.kind = "returned"
    /\ path = ConsumerPath(step)
    /\ LET r == ConsumerResult(step, outcome.data)
       IN  /\ dnPc' = IF r.raised THEN "raised" ELSE "done"
           /\ dnItems' = r.items
    /\ dnStep' = step
    /\ UNCHANGED <<poVars, pgVars, stVars, tbVars, exVars, chVars, mnVars>>

InitBody == InitPost

NextBody ==
    \/ \E step \in Consumers, r \in 1..2 : ConsumerCall(step, r)
    \/ \E resp \in Responses : PostAttempt(resp)
    \/ PostExhausted
    \/ \E step \in Consumers : Consume(step)

SpecBody == InitBody /\ [][NextBody]_vars

\* ---- claims about unparseable bodies --------------------------------------

\* C12: when post_ozon has returned on a success status with a body that is
\* not parseable JSON, it has returned the raw text, and the step that
\* received it has come to the empty record list without raising.
C12_RawTextIsEmptyList ==
    (dnPc # "idle" /\ ~JsonParses(lastResp.body)) =>
        /\ outcome = Returned(lastResp)
        /\ outcome.data = JStr(lastResp.body)
        /\ dnPc = "done"
        /\ dnItems = <<>>

\* ---- claims about the streamed document -----------------------------------

\* The text written, one token per write: the opening and closing bracket of
\* an array, the separator, a serialized record.
C13_Token(w) ==
    IF w.k = "json" THEN "value"
    ELSE CASE w.text = "[\n" -> "["
           [] w.text = ",\n" -> ","
           [] w.text = "\n]\n" -> "]"
           [] OTHER -> "?"

RECURSIVE C13_Elements(_, _, _)
\* Reading the elements of an array from the i-th write on, a JSON reader
\* being in state st: "first" (after the bracket), "value" (after a
\* separator), "next" (after a value).  ok is FALSE where a reader fails.
C13_Elements(file, i, st) ==
    IF i > Len(file) THEN [ok |-> FALSE, elems |-> <<>>]
    ELSE LET tok == C13_Token(file[i])
         IN  IF tok = "]" /\ st \in {"first", "next"}
             THEN [ok |-> i = Len(file), elems |-> <<>>]
             ELSE IF tok = "value" /\ st \in {"first", "value"}
             THEN LET rest == C13_Elements(file, i + 1, "next")
                  IN  [ok |-> rest.ok, elems |-> <<file[i].json>> \o rest.elems]
             ELSE IF tok = "," /\ st = "next"
             THEN C13_Elements(file, i + 1, "value")
             ELSE [ok |-> FALSE, elems |-> <<>>]

\* json.load of the file written: whether it is a JSON document, and the
\* value it holds.
C13_Load(file) ==
    IF file # <<>> /\ C13_Token(file[1]) = "["
    THEN LET r == C13_Elements(file, 2, "first")
         IN  [ok |-> r.ok, value |-> JList(r.elems)]
    ELSE [ok |-> FALSE, value |-> JNull]

\* The non-streaming form of a table: json.dump({name: records}).
C13_Table(name, records) == JDict(<<name>>, <<JList(records)>>)

\* C13: in a completed run the file written is a JSON document that holds
\* what the non-streaming form of a table holds: an object with exactly one
\* key, mapping to the records written, in order.
C13_StreamEqualsTable ==
    stPc = "done" =>
        LET doc == C13_Load(f)
        IN  /\ doc.ok
            /\ doc.value.t = "dict"
            /\ Len(doc.value.ks) = 1
            /\ doc.value = C13_Table(doc.value.ks[1], WrittenObjs(f))

\* ------------------------------------------------------------------------
\* chunked, as a function of its arguments
\* ------------------------------------------------------------------------

\* Bound: the longest of the short lists chunked is tried on.
MaxLen == 4

\* Bound: the largest n tried on the short lists.
MaxN == 5

\* The default of the chunk_size parameter of export_stocks_compact.
DefaultChunkSize == 99

\* The n of chunked(product_ids, 1000) in get_sku_meta_by_product_ids.
AttributesChunkSize == 1000

\* The cap of /v1/analytics/stocks on the SKUs of one request.
StocksApiCap == 100

\* The list 1, 2, ..., n.
Iota(n) == [i \in 1..n |-> i]

\* Short lists with repeated elements, and lists around the multiples of the
\* sizes the scripts pass.
ShortLists == UNION { [1..n -> {"a", "b"}] : n \in 0..MaxLen }

LongLists == { Iota(n) : n \in {0, 1, 98, 99, 100, 198, 199, 999, 1000, 1001, 2001} }

\* chunked(lst, n) is called.
ChunkedCall ==
    /\ chPc = "call"
    /\ chunks' = Chunked(chLst, chN)
    /\ chPc' = "done"
    /\ UNCHANGED <<chLst, chN>>
    /\ UNCHANGED <<poVars, pgVars, stVars, tbVars, exVars, dnVars, mnVars>>

InitChunks ==
    /\ PoIdle
    /\ PgIdle
    /\ StIdle
    /\ TbIdle
    /\ ExIdle
    /\ DnIdle
    /\ MnIdle
    /\ chPc = "call"
    /\ \/ chLst \in ShortLists /\ chN \in 1..MaxN
       \/ chLst \in LongLists /\ chN \in {DefaultChunkSize, AttributesChunkSize}
    /\ chunks = <<>>

NextChunks == ChunkedCall

SpecChunks == InitChunks /\ [][NextChunks]_vars

\* ---- claims about chunked -------------------------------------------------

RECURSIVE C14_Concat(_)
\* The concatenation of a list of lists, in order.
C14_Concat(ch) == IF ch = <<>> THEN <<>> ELSE Head(ch) \o C14_Concat(Tail(ch))

\* C14: the sub-sequences chunked returns concatenate to the input; each is
\* non-empty and at most n long, all but the last exactly n long; the empty
\* input gives none.  With the chunk size of the stock requests each carries
\* 1 to 99 SKUs, within the cap of 100; with that of the attribute requests
\* each carries at most 1000 identifiers.
C14_ChunksPartition ==
    chPc = "done" =>
        /\ C14_Concat(chunks) = chLst
        /\ \A i \in 1..Len(chunks) :
              /\ 1 <= Len(chunks[i])
              /\ Len(chunks[i]) <= chN
              /\ i < Len(chunks) => Len(chunks[i]) = chN
        /\ chLst = <<>> => chunks = <<>>
        /\ chN = DefaultChunkSize =>
              \A i \in 1..Len(chunks) :
                 /\ Len(chunks[i]) \in 1..99
                 /\ Len(chunks[i]) <= StocksApiCap
        /\ chN = AttributesChunkSize =>
              \A i \in 1..Len(chunks) : Len(chunks[i]) <= 1000

\* C14 witness: 199 SKUs in chunks of 99: two full chunks and a last one of
\* one SKU.
C14_Witness ==
    /\ chPc = "done"
    /\ chN = DefaultChunkSize
    /\ Len(chLst) = 199
    /\ Len(chunks) = 3
    /\ Len(chunks[2]) = 99
    /\ chunks[3] = <<199>>

\* ------------------------------------------------------------------------
\* fbo_clusters.py: get_fbo_warehouse_map and main
\* ------------------------------------------------------------------------

\* extract_list_any(data)
extract_list_any(reply) ==
    IF reply.t = "list" THEN OnlyDicts(reply.xs)
    ELSE IF reply.t # "dict" THEN <<>>
    ELSE LET r == DictGet(reply, "result")
         IN  IF r.t = "list" THEN OnlyDicts(r.xs)
             ELSE IF r.t = "dict" /\ DictGet(r, "items").t = "list"
             THEN OnlyDicts(DictGet(r, "items").xs)
             ELSE IF r.t = "dict" /\ \E i \in 1..Len(r.xs) : is_list_of_dicts(r.xs[i])
             THEN r.xs[CHOOSE i \in 1..Len(r.xs) :
                         /\ is_list_of_dicts(r.xs[i])
                         /\ \A j \in 1..(i - 1) : ~is_list_of_dicts(r.xs[j])].xs
             ELSE IF DictGet(reply, "items").t = "list"
             THEN OnlyDicts(DictGet(reply, "items").xs)
             ELSE <<>>

\* The loop of get_fbo_warehouse_map over the rows: mp after it.
WarehouseMapOf(ws) ==
    LET mp[i \in 0..Len(ws)] ==
          IF i = 0 THEN <<>>
          ELSE LET wid == pick(ws[i], <<"warehouse_id", "id">>)
                   nm == pick(ws[i], <<"name", "warehouse_name", "title">>)
               IN  IF wid # JNull /\ Truthy(nm)
                   THEN (PyStr(wid) :> PyStr(nm)) @@ mp[i - 1]
                   ELSE mp[i - 1]
    IN  mp[Len(ws)]

\* What leaves get_fbo_warehouse_map: a map returned or an exception.
MapReturn(mp) == [raised |-> FALSE, map |-> mp]

\* An except clause that lets the exception through.
ExceptReturn_Reraises == [raised |-> TRUE, map |-> <<>>]

\* except Exception: return {}
ExceptReturn == MapReturn(<<>>)

\* get_fbo_warehouse_map(), given what its post_ozon call did.
get_fbo_warehouse_map(o) ==
    IF o.kind = "returned"
    THEN MapReturn(WarehouseMapOf(extract_list_any(o.data)))
    ELSE ExceptReturn

DirectoryPath == "/v1/warehouse/fbo/list"

\* The data post_ozon returns on a parsed (or raw) body.
ReturnedData(v) ==
    [kind |-> "returned", status |-> 200, path |-> "", attempts |-> 0, data |-> v]

\* Rows of the warehouse directory.
DirectoryRows ==
    << JDict(<<"warehouse_id", "name">>, <<JInt(10), JStr("Dir10")>>),
       JDict(<<"id", "title">>, <<JStr("11"), JStr("Dir11")>>),
       JDict(<<"warehouse_id", "warehouse_name">>, <<JInt(12), JStr("Dir12")>>),
       JDict(<<"warehouse_id">>, <<JInt(15)>>) >>

\* Bodies of the directory call: the list in each of the places
\* extract_list_any looks at, lists without usable rows, and bodies that hold
\* no list at all.
DirectoryBodies ==
    { JDict(<<"result">>, <<JList(DirectoryRows)>>),
      JDict(<<"result">>, <<JDict(<<"items">>, <<JList(DirectoryRows)>>)>>),
      JDict(<<"result">>, <<JDict(<<"total", "warehouses">>,
                                  <<JInt(4), JList(DirectoryRows)>>)>>),
      JDict(<<"items">>, <<JList(DirectoryRows)>>),
      JList(DirectoryRows),
      JList(<<JInt(10), JStr("Dir10")>>),
      JList(<<JDict(<<"warehouse_id">>, <<JInt(10)>>)>>),
      JStr("<html>oops</html>"), JStr(""), JNull, JInt(7), EmptyDict,
      JDict(<<"error">>, <<JStr("forbidden")>>),
      JDict(<<"result">>, <<JStr("none")>>),
      JDict(<<"items">>, <<JDict(<<"10">>, <<JStr("Dir10")>>)>>) }

\* What the post_ozon call of get_fbo_warehouse_map may do.
DirectoryOutcomes ==
    { ReturnedData(v) : v \in DirectoryBodies }
    \cup { RequestExhausted(DirectoryPath, 6) }
    \cup { RequestFailed([status |-> s, body |-> "<html>oops</html>"], DirectoryPath) :
             s \in {400, 404, 501} }

\* The files main writes (the Cyrillic names and keys in Latin letters).
RegionsFile == "regiony_ozon.json"

WarehousesFile == "sklady_ozon.json"

\* dump_json(path, {key: records})
Dump(key, records) == [key |-> key, records |-> records]

\* warehouse_map = get_fbo_warehouse_map()
GetWarehouseMap(o) ==
    /\ tbPc = "map"
    /\ dirAnswer' = o
    /\ LET r == get_fbo_warehouse_map(o)
       IN  IF r.raised
           THEN tbPc' = "raised" /\ UNCHANGED warehouse_map
           ELSE tbPc' = "regions" /\ warehouse_map' = r.map
    /\ UNCHANGED <<clusters, consumed, regions, map_cluster_to_region_id,
                   next_id, rows, seen, dumped>>
    /\ UNCHANGED <<poVars, pgVars, stVars, exVars, dnVars, chVars>>

\* The two dump_json calls of main.
DumpTables ==
    /\ tbPc = "done"
    /\ dumped' = (RegionsFile :> Dump("region_ozon", regions))
                 @@ (WarehousesFile :> Dump("sklady_ozon", rows))
    /\ tbPc' = "written"
    /\ UNCHANGED <<clusters, warehouse_map, consumed, regions,
                   map_cluster_to_region_id, next_id, rows, seen, dirAnswer>>
    /\ UNCHANGED <<poVars, pgVars, stVars, exVars, dnVars, chVars>>

\* main, after extract_clusters has returned the clusters.
InitMain ==
    /\ PoIdle
    /\ PgIdle
    /\ StIdle
    /\ ExIdle
    /\ DnIdle
    /\ ChIdle
    /\ MnIdle
    /\ tbPc = "map"
    /\ clusters \in ClusterLists
    /\ warehouse_map = <<>>
    /\ consumed = 0
    /\ regions = <<>>
    /\ map_cluster_to_region_id = <<>>
    /\ next_id = 1
    /\ rows = <<>>
    /\ seen = {}

NextMain ==
    \/ \E o \in DirectoryOutcomes : GetWarehouseMap(o)
    \/ RegionStep
    \/ RegionsReturn
    \/ WarehouseStep
    \/ WarehousesReturn
    \/ DumpTables

SpecMain == InitMain /\ [][NextMain]_vars

\* ---- claims about get_fbo_warehouse_map and main --------------------------

\* build_regions(cs) as a function of the clusters: the region rows and the
\* map from cluster identifier to local id.
C15_BuildRegions(cs) ==
    LET B[i \in 0..Len(cs)] ==
          IF i = 0 THEN [regions |-> <<>>, map |-> <<>>]
          ELSE LET cid == pick(cs[i], <<"cluster_id", "id">>)
                   prev == B[i - 1]
               IN  IF cid = JNull \/ PyStr(cid) \in DOMAIN prev.map THEN prev
                   ELSE [regions |-> Append(prev.regions,
                            Region(Len(prev.regions) + 1,
                                   pick(cs[i], <<"cluster_name", "name", "title">>),
                                   IdClusterOzon(cid))),
                         map |-> (PyStr(cid) :> Len(prev.regions) + 1) @@ prev.map]
    IN  B[Len(cs)]

\* build_warehouses(cs, map, wmap) as a function of its arguments: the rows.
C15_BuildWarehouses(cs, map, wmap) ==
    LET B[i \in 0..Len(cs)] ==
          IF i = 0 THEN [rows |-> <<>>, seen |-> {}]
          ELSE LET cid == pick(cs[i], <<"cluster_id", "id">>)
                   prev == B[i - 1]
               IN  IF cid = JNull \/ PyStr(cid) \notin DOMAIN map THEN prev
                   ELSE AddRefs(collect_warehouse_refs(cs[i]), map[PyStr(cid)],
                                wmap, prev.rows, prev.seen)
    IN  B[Len(cs)].rows

\* A body of unexpected shape: neither a list nor an object that holds a
\* list or an object under "result" or a list under "items".
C15_UnexpectedShape(v) ==
    /\ v.t # "list"
    /\ v.t = "dict" =>
          /\ DictGet(v, "result").t \notin {"list", "dict"}
          /\ DictGet(v, "items").t # "list"

\* The directory call has failed: post_ozon raised (budget exhausted, or a
\* status that is not retried) or returned a body of unexpected shape.
C15_CallFailed ==
    \/ dirAnswer.kind \in {"exhausted", "failed"}
    \/ dirAnswer.kind = "returned" /\ C15_UnexpectedShape(dirAnswer.data)

\* C15: after a failed directory call get_fbo_warehouse_map has returned the
\* empty map and raised nothing; main is in one of its table-building loops
\* with clusters left or a return to take, or has written; and the tables
\* written are both tables, built from the same clusters with the empty map.
C15_FailureSwallowed ==
    (tbPc # "map" /\ C15_CallFailed) =>
        /\ tbPc # "raised"
        /\ warehouse_map = <<>>
        /\ tbPc \in {"regions", "warehouses", "done", "written"}
        /\ consumed \in 0..Len(clusters)
        /\ tbPc = "written" =>
              LET b == C15_BuildRegions(clusters)
              IN  /\ DOMAIN dumped = {RegionsFile, WarehousesFile}
                  /\ dumped[RegionsFile] = Dump("region_ozon", b.regions)
                  /\ dumped[WarehousesFile] =
                        Dump("sklady_ozon",
                             C15_BuildWarehouses(clusters, b.map, <<>>))

\* C15 witness: the directory call ran out of retries, main has written both
\* tables, and a directory would have named a warehouse the clusters give
\* without a name.
C15_Witness ==
    /\ tbPc = "written"
    /\ dirAnswer.kind = "exhausted"
    /\ dumped[RegionsFile].records # <<>>
    /\ Len(dumped[WarehousesFile].records) <
          Len(C15_BuildWarehouses(clusters, map_cluster_to_region_id,
                                  WarehouseMapOf(DirectoryRows)))

\* ------------------------------------------------------------------------
\* stock_ozon.py: get_sku_meta_by_product_ids
\* ------------------------------------------------------------------------

\* s.strip(), on the texts of the model: only " 1 " carries white space.
Strip(str) == IF str = " 1 " THEN "1" ELSE str

NoSku == [ok |-> FALSE, n |-> 0]

\* normalize_sku(v): ok is FALSE for None.
normalize_sku(v) ==
    IF v.t = "null" THEN NoSku
    ELSE LET digits == \/ v.t = "int" /\ v.n >= 0
                       \/ v.t = "str" /\ IsIntText(Strip(v.s))
             n == IF v.t = "int" THEN v.n ELSE TextInt(Strip(v.s))
         IN  IF digits /\ n > 0 THEN [ok |-> TRUE, n |-> n] ELSE NoSku

\* extract_sku_from_item(it)
extract_sku_from_item(it) ==
    LET a == normalize_sku(DictGet(it, "sku"))
        b == normalize_sku(DictGet(it, "sku_id"))
        v == DictGet(it, "skus")
    IN  IF a.ok THEN a
        ELSE IF b.ok THEN b
        ELSE IF v.t = "list" /\ Len(v.xs) > 0 THEN normalize_sku(v.xs[1])
        ELSE NoSku

\* A setdefault that overwrites.
SetDefault_Overwrites(map, k, v) == (k :> v) @@ map

\* sku_meta.setdefault(k, v)
SetDefault(map, k, v) == IF k \in DOMAIN map THEN map ELSE (k :> v) @@ map

\* The loop over the items of one batch: sku_meta after it.
AddMeta(meta, items) ==
    LET A[i \in 0..Len(items)] ==
          IF i = 0 THEN meta
          ELSE LET sku == extract_sku_from_item(items[i])
               IN  IF ~sku.ok THEN A[i - 1]
                   ELSE SetDefault(A[i - 1], sku.n,
                                   Meta(DictGet(items[i], "name"),
                                        DictGet(items[i], "offer_id")))
    IN  A[Len(items)]

\* Attribute records: the SKU under sku, sku_id or skus, as a number or a
\* text, usable or not.
AttributeRecords ==
    << JDict(<<"sku", "name", "offer_id">>, <<JInt(1), JStr("one"), JStr("a-1")>>),
       JDict(<<"sku", "name", "offer_id">>, <<JStr("1"), JStr("one bis"), JStr("a-1b")>>),
       JDict(<<"sku_id", "name">>, <<JStr(" 1 "), JStr("one ter")>>),
       JDict(<<"skus", "name", "offer_id">>,
             <<JList(<<JInt(2), JInt(3)>>), JStr("two"), JStr("a-2")>>),
       JDict(<<"sku", "sku_id", "offer_id">>, <<JInt(0), JInt(2), JStr("a-2b")>>),
       JDict(<<"sku", "skus", "name">>,
             <<JNum(3), JList(<<JStr("abc")>>), JStr("no sku")>>),
       JDict(<<"name", "offer_id">>, <<JStr("no sku at all"), JStr("a-0")>>),
       JDict(<<"sku", "name", "offer_id">>, <<JStr("3"), JStr("three"), JStr("a-3")>>) >>

\* The data post_ozon may return for an attribute request.
AttributeReplies ==
    { JDict(<<"result">>, <<JList(SubSeq(AttributeRecords, 1, 3))>>),
      JDict(<<"result">>, <<JList(SubSeq(AttributeRecords, 4, 8))>>),
      JDict(<<"result">>,
            <<JDict(<<"items">>, <<JList(<<AttributeRecords[5], AttributeRecords[4],
                                           AttributeRecords[2]>>)>>)>>),
      JDict(<<"items">>, <<JList(<<AttributeRecords[8], JInt(7), AttributeRecords[2],
                                   AttributeRecords[1]>>)>>),
      JList(<<AttributeRecords[3], AttributeRecords[6], AttributeRecords[7]>>),
      JDict(<<"result">>, <<EmptyList>>),
      JStr("<html>oops</html>") }

\* The product identifiers get_all_product_ids returned: "1", ..., "n".
ProductIds(n) == [i \in 1..n |-> ToString(i)]

\* One iteration of the batch loop, given the data post_ozon returned.
MetaBatch(reply) ==
    /\ stPc = "meta"
    /\ batchNo < Len(Chunked(product_ids, AttributesChunkSize))
    /\ sku_meta' = AddMeta(sku_meta, extract_attributes_items(reply))
    /\ batchNo' = batchNo + 1
    /\ replies' = Append(replies, reply)
    /\ UNCHANGED <<stPc, chunk_size, skus, f, first_sku_obj>>
    /\ UNCHANGED <<poVars, pgVars, tbVars, exVars, dnVars, chVars, mnVars>>

\* An iteration whose post_ozon call raises.
MetaBatchRaises ==
    /\ stPc = "meta"
    /\ batchNo < Len(Chunked(product_ids, AttributesChunkSize))
    /\ stPc' = "crashed"
    /\ UNCHANGED <<sku_meta, chunk_size, skus, batchNo, f, first_sku_obj, replies>>
    /\ UNCHANGED <<poVars, pgVars, tbVars, exVars, dnVars, chVars, mnVars>>

\* return sku_meta: export_stocks_compact goes on with it.
MetaReturn ==
    /\ stPc = "meta"
    /\ batchNo = Len(Chunked(product_ids, AttributesChunkSize))
    /\ stPc' = "start"
    /\ batchNo' = 0
    /\ UNCHANGED <<sku_meta, chunk_size, skus, f, first_sku_obj, replies>>
    /\ UNCHANGED <<poVars, pgVars, tbVars, exVars, dnVars, chVars, mnVars>>

\* export_stocks_compact after get_all_product_ids has returned.
InitMeta ==
    /\ PoIdle
    /\ TbIdle
    /\ ExIdle
    /\ DnIdle
    /\ ChIdle
    /\ MnIdle
    /\ pgPc = "done"
    /\ variant = "stock_ozon"
    /\ script = <<>>
    /\ served = 0
    /\ product_ids \in { ProductIds(n) : n \in {0, 1, 1000, 1001, 2001} }
    /\ last_id = ""
    /\ stPc = "meta"
    /\ sku_meta = <<>>
    /\ chunk_size = DefaultChunkSize
    /\ skus = <<>>
    /\ batchNo = 0
    /\ f = <<>>
    /\ first_sku_obj = TRUE
    /\ replies = <<>>

NextMeta ==
    \/ \E reply \in AttributeReplies : MetaBatch(reply)
    \/ MetaBatchRaises
    \/ MetaReturn

SpecMeta == InitMeta /\ [][NextMeta]_vars

\* ---- claims about get_sku_meta_by_product_ids ------------------------------

RECURSIVE C16_Records(_)
\* The attribute records of the replies received, in batch order then record
\* order.
C16_Records(rs) ==
    IF rs = <<>> THEN <<>>
    ELSE extract_attributes_items(Head(rs)) \o C16_Records(Tail(rs))

\* C16: at every point of get_sku_meta_by_product_ids and after it, the map
\* has an entry for exactly the SKUs derived from the records received so
\* far, and the entry of a SKU is the name and offer code of the first
\* record, in batch order then record order, whose derived SKU it is.
C16_FirstSeenKept ==
    stPc \in {"meta", "start"} =>
        LET recs == C16_Records(replies)
            sku(i) == extract_sku_from_item(recs[i])
        IN  /\ DOMAIN sku_meta = { sku(i).n : i \in { j \in 1..Len(recs) : sku(j).ok } }
            /\ \A k \in DOMAIN sku_meta :
                  LET first == CHOOSE i \in 1..Len(recs) :
                                  /\ sku(i).ok /\ sku(i).n = k
                                  /\ \A j \in 1..(i - 1) : ~(sku(j).ok /\ sku(j).n = k)
                  IN  /\ DictGet(sku_meta[k], "name") = DictGet(recs[first], "name")
                      /\ DictGet(sku_meta[k], "offer_id") = DictGet(recs[first], "offer_id")

\* C16 witness: the function has returned after three batches; SKU 1 came
\* with three different pairs in the first batch and again in a later batch,
\* and holds the first pair.
C16_Witness ==
    /\ stPc = "start"
    /\ Len(replies) = 3
    /\ replies[1] = JDict(<<"result">>, <<JList(SubSeq(AttributeRecords, 1, 3))>>)
    /\ \E i \in 1..Len(extract_attributes_items(replies[3])) :
          LET it == extract_attributes_items(replies[3])[i]
          IN  /\ extract_sku_from_item(it) = [ok |-> TRUE, n |-> 1]
              /\ DictGet(it, "name") # JStr("one")
    /\ sku_meta[1] = Meta(JStr("one"), JStr("a-1"))

\* ---- claims about the rows export_stocks_compact writes --------------------

\* The compacted rows of a reply, for the rows that are records.
C17_Compacted(reply) ==
    LET its == OnlyDicts(StockItems(reply))
    IN  { compact_row(its[i], MetaGet(sku_meta, PyInt(DictGet(its[i], "sku")).n)).row :
            i \in 1..Len(its) }

\* A value that is the integer k: the number k or its decimal text.
C17_IsInteger(v, k) ==
    \/ v.t = "int" /\ v.n = k
    \/ v.t = "str" /\ v.s = ToString(k)

\* C17: every record written is that of a SKU requested, in the order
\* requested, and every row in it was returned by the request of that SKU's
\* batch and reports, as an integer, that SKU.
C17_OnlyRequestedRows ==
    stPc \in {"run", "done"} =>
        LET objs == WrittenObjs(f)
        IN  /\ Len(objs) <= Len(skus)
            /\ \A i \in 1..Len(objs) :
                  LET b == ((i - 1) \div chunk_size) + 1
                      its == DictGet(objs[i], "items").xs
                  IN  /\ skus[i] \in SeqRange(Chunked(skus, chunk_size)[b])
                      /\ DictGet(objs[i], "sku") = JStr(ToString(skus[i]))
                      /\ \A j \in 1..Len(its) :
                            /\ its[j] \in C17_Compacted(replies[b])
                            /\ C17_IsInteger(DictGet(its[j], "sku"), skus[i])

====
